---- MODULE Spec2Model ----
(***************************************************************************)
(* Model of the FTX Derivatives (LedgerX) client library, src/src/lib.rs.  *)
(*                                                                         *)
(* A rust_decimal::Decimal is a record [m |-> mantissa, s |-> scale]: the  *)
(* value is m / 10^s.  Decimal::set_scale replaces the scale and leaves    *)
(* the mantissa alone; it fails only when the scale exceeds 28.            *)
(*                                                                         *)
(* Spec : one call of an entry point on an input drawn from bounded sets.  *)
(*        The conversion functions, get_transactions and get_balances      *)
(*        return in one step; get_contracts_ticker builds one fetch per    *)
(*        key, and its try_join_all is polled while the server answers     *)
(*        the fetches in any order.                                        *)
(***************************************************************************)
EXTENDS Integers, Sequences, FiniteSets, TLC

\* ------------------------------------------------------------------ bounds
MaxMant == 1        \* raw mantissas range over -MaxMant..MaxMant
MaxRawScale == 3    \* raw scales range over 0..MaxRawScale
MaxTarget == 29     \* target scales handed to rescale_number directly
MaxTxns == 2        \* length of the transaction page returned by the server
MaxIds == 3         \* length of the contract_ids slice of a batch
MaxKey == 2         \* contract ids range over 1..MaxKey
MaxQuote == 2       \* the server quotes a contract at one of 1..MaxQuote

\* ------------------------------------------------------- program constants
MAX_PRECISION == 28 \* rust_decimal: largest scale set_scale accepts
USD_DECIMALS == 2
CBTC_DECIMALS == 8
ETH_DECIMALS == 9
PRICE_DECIMALS == 2 \* the literal 2 of convert_contract/_ticker/_trade

\* ------------------------------------------------------------ result types
Ok(v) == [ok |-> TRUE, val |-> v]
Err(e) == [ok |-> FALSE, err |-> e]
None == [some |-> FALSE]
Some(v) == [some |-> TRUE, val |-> v]

\* FTXDerivativesError; a reqwest error names the url it was raised for
UnknownCurrency(c) == [kind |-> "UnknownCurrency", currency |-> c]
DecimalError == [kind |-> "DecimalError"]
ReqwestError(url) == [kind |-> "ReqwestError", url |-> url]
JSONError == [kind |-> "JSONError"]

Dec(m, s) == [m |-> m, s |-> s]

\* ---------------------------------------------------------- decimal helpers
RECURSIVE Pow10(_)
Pow10(n) == IF n = 0 THEN 1 ELSE 10 * Pow10(n - 1)

\* a and b denote the same number (a.m / 10^a.s = b.m / 10^b.s)
RECURSIVE NumEq(_, _)
NumEq(a, b) ==
    IF a.s = b.s THEN a.m = b.m
    ELSE IF a.s < b.s
         THEN b.m % 10 = 0 /\ NumEq(a, Dec(b.m \div 10, b.s - 1))
         ELSE a.m % 10 = 0 /\ NumEq(Dec(a.m \div 10, a.s - 1), b)

\* d has a nonzero digit in a position finer than scale t
HasDigitBeyond(d, t) == d.s > t /\ d.m % Pow10(d.s - t) # 0

\* --------------------------------------------------- get_num_decimals
\* variant: an unknown currency silently gets the USD precision
get_num_decimals_default(currency) ==
    CASE currency = "CBTC" -> Ok(CBTC_DECIMALS)
      [] currency = "ETH" -> Ok(ETH_DECIMALS)
      [] OTHER -> Ok(USD_DECIMALS)

\* variant: the earlier revision of the table, ETH at 8 digits
get_num_decimals_eth8(currency) ==
    CASE currency = "USD" -> Ok(USD_DECIMALS)
      [] currency = "CBTC" -> Ok(CBTC_DECIMALS)
      [] currency = "ETH" -> Ok(CBTC_DECIMALS)
      [] OTHER -> Err([kind |-> "UnknownCurrency", currency |-> currency])

get_num_decimals(currency) ==
    CASE currency = "USD" -> Ok(USD_DECIMALS)
      [] currency = "CBTC" -> Ok(CBTC_DECIMALS)
      [] currency = "ETH" -> Ok(ETH_DECIMALS)
      [] OTHER -> Err(UnknownCurrency(currency))

\* --------------------------------------------------- Decimal::set_scale
set_scale(d, scale) ==
    IF scale > MAX_PRECISION THEN Err(DecimalError)
    ELSE Ok(Dec(d.m, scale))

\* --------------------------------------------------- rescale_number
\* Decimal::rescale, the value-preserving sibling of set_scale: the mantissa
\* is multiplied by 10 per digit gained (as far as the mantissa has room)
RECURSIVE rescale_up(_, _)
rescale_up(d, scale) ==
    IF d.s >= scale \/ d.m * 10 > 100000000 \/ d.m * 10 < -100000000 THEN d
    ELSE rescale_up(Dec(d.m * 10, d.s + 1), scale)

\* variant: rescale_number written with Decimal::rescale
rescale_number_by_value(amount, num_decimals) ==
    IF num_decimals > MAX_PRECISION THEN Err(DecimalError)
    ELSE Ok(rescale_up(amount, num_decimals))

\* variant: the scale is only ever raised, an amount that already has at
\* least num_decimals digits is left as it is
rescale_number_at_least(amount, num_decimals) ==
    IF amount.s >= num_decimals THEN Ok(amount)
    ELSE set_scale(amount, num_decimals)

rescale_number(amount, num_decimals) == set_scale(amount, num_decimals)

\* rescale_opt, the helper nested in convert_transaction
rescale_opt(orig, num_decimals) ==
    IF orig.some
    THEN LET r == rescale_number(orig.val, num_decimals)
         IN IF r.ok THEN Ok(Some(r.val)) ELSE r
    ELSE Ok(None)

\* --------------------------------------------------- convert_contract
convert_contract(contract) ==
    IF contract.variant = "Option"
    THEN LET r == rescale_number(contract.strike_price, PRICE_DECIMALS)
         IN IF r.ok THEN Ok([contract EXCEPT !.strike_price = r.val]) ELSE r
    ELSE Ok(contract)

\* --------------------------------------------------- convert_contract_ticker
convert_contract_ticker(ticker) ==
    LET lt == IF ticker.last_trade.some
              THEN LET r == rescale_number(ticker.last_trade.val.price, PRICE_DECIMALS)
                   IN IF r.ok
                      THEN Ok(Some([ticker.last_trade.val EXCEPT !.price = r.val]))
                      ELSE r
              ELSE Ok(None)
        ask == rescale_number(ticker.ask, PRICE_DECIMALS)
        bid == rescale_number(ticker.bid, PRICE_DECIMALS)
    IN IF ~lt.ok THEN lt
       ELSE IF ~ask.ok THEN ask
       ELSE IF ~bid.ok THEN bid
       ELSE Ok([ticker EXCEPT !.ask = ask.val, !.bid = bid.val,
                              !.last_trade = lt.val])

\* --------------------------------------------------- convert_transaction
convert_transaction(transaction) ==
    LET nd == get_num_decimals(transaction.asset)
    IN IF ~nd.ok THEN nd
       ELSE
       LET num_decimals == nd.val
           amount == rescale_number(transaction.amount, num_decimals)
           dpre == rescale_opt(transaction.debit_pre_balance, num_decimals)
           dpost == rescale_opt(transaction.debit_post_balance, num_decimals)
           cpre == rescale_opt(transaction.credit_pre_balance, num_decimals)
           cpost == rescale_opt(transaction.credit_post_balance, num_decimals)
           net == rescale_number(transaction.net_change, num_decimals)
       IN IF ~amount.ok THEN amount
          ELSE IF ~dpre.ok THEN dpre
          ELSE IF ~dpost.ok THEN dpost
          ELSE IF ~cpre.ok THEN cpre
          ELSE IF ~cpost.ok THEN cpost
          ELSE IF ~net.ok THEN net
          ELSE Ok([transaction EXCEPT !.amount = amount.val,
                                      !.debit_pre_balance = dpre.val,
                                      !.debit_post_balance = dpost.val,
                                      !.credit_pre_balance = cpre.val,
                                      !.credit_post_balance = cpost.val,
                                      !.net_change = net.val])

\* --------------------------------------------------- convert_trade
convert_trade(trade) ==
    LET filled_price == rescale_number(trade.filled_price, PRICE_DECIMALS)
        fee == rescale_number(trade.fee, PRICE_DECIMALS)
        rebate == rescale_number(trade.rebate, PRICE_DECIMALS)
        premium == rescale_number(trade.premium, PRICE_DECIMALS)
    IN IF ~filled_price.ok THEN filled_price
       ELSE IF ~fee.ok THEN fee
       ELSE IF ~rebate.ok THEN rebate
       ELSE IF ~premium.ok THEN premium
       ELSE Ok([trade EXCEPT !.filled_price = filled_price.val,
                             !.fee = fee.val,
                             !.rebate = rebate.val,
                             !.premium = premium.val])

\* --------------------------------------------------- get_transactions
\* res.into_iter().map(convert_transaction).collect(): the first Err in input
\* order ends the collection and is returned, otherwise the converted list.
RECURSIVE collect_transactions(_, _)
collect_transactions(data, acc) ==
    IF data = << >> THEN Ok(acc)
    ELSE LET r == convert_transaction(Head(data))
         IN IF r.ok THEN collect_transactions(Tail(data), Append(acc, r.val))
            ELSE r

\* listing is the outcome of get_list: Ok(data) or a transport/JSON error
get_transactions(listing) ==
    IF ~listing.ok THEN listing
    ELSE collect_transactions(listing.val, << >>)

\* --------------------------------------------------- Decimal += Decimal
\* the operands are brought to the larger of the two scales, then added
dec_add(a, b) ==
    LET s == IF a.s >= b.s THEN a.s ELSE b.s
    IN Dec(a.m * Pow10(s - a.s) + b.m * Pow10(s - b.s), s)

\* --------------------------------------------------- get_balances
\* the for loop over txn: st.balances is the HashMap, st.adds logs the
\* operands of every += it performs
\* variant: a later transaction of an asset replaces its balance
balances_step_overwrite(st, t) ==
    [balances |-> IF t.asset \in DOMAIN st.balances
                  THEN [st.balances EXCEPT ![t.asset] = t.net_change]
                  ELSE st.balances @@ (t.asset :> t.net_change),
     adds |-> st.adds]

balances_step(st, t) ==
    IF t.asset \in DOMAIN st.balances
    THEN [balances |-> [st.balances EXCEPT
                           ![t.asset] = dec_add(st.balances[t.asset], t.net_change)],
          adds |-> Append(st.adds, <<st.balances[t.asset], t.net_change>>)]
    ELSE [balances |-> st.balances @@ (t.asset :> t.net_change),
          adds |-> st.adds]

RECURSIVE balances_loop(_, _)
balances_loop(txn, st) ==
    IF txn = << >> THEN st
    ELSE balances_loop(Tail(txn), balances_step(st, Head(txn)))

get_balances(listing) ==
    LET txn == get_transactions(listing)
    IN IF ~txn.ok THEN [ret |-> txn, adds |-> << >>]
       ELSE LET st == balances_loop(txn.val, [balances |-> << >>, adds |-> << >>])
            IN [ret |-> Ok(st.balances), adds |-> st.adds]

\* --------------------------------------------------- try_join_all
\* One poll of the join, elements in order.  An element polled for the first
\* time sends its request; an element in flight whose response has arrived
\* completes: with the converted ticker, or with the error, which ends the
\* pass.  resp[i] is what the server has answered to fetch i so far.
RECURSIVE poll_elems(_, _, _, _)
poll_elems(i, ids, resp, st) ==
    IF i > Len(ids) THEN st
    ELSE IF st.fut[i] = "created"
    THEN poll_elems(i + 1, ids, resp,
                    [st EXCEPT !.fut[i] = "inflight",
                               !.sent = Append(@, [fetch |-> i,
                                                  contract_id |-> ids[i]])])
    ELSE IF st.fut[i] = "inflight" /\ resp[i].some
    THEN LET r == IF resp[i].val.ok
                  THEN convert_contract_ticker(resp[i].val.val)
                  ELSE resp[i].val
         IN IF r.ok
            THEN poll_elems(i + 1, ids, resp,
                            [st EXCEPT !.fut[i] = "ok", !.out[i] = Some(r.val)])
            ELSE [st EXCEPT !.fut[i] = "err", !.error = Some(r.err)]
    ELSE poll_elems(i + 1, ids, resp, st)

\* variant: a failed element leaves its siblings running
drop_elems_none(fut) == fut

\* the futures the join still owns are dropped with it
drop_elems(fut) ==
    [i \in DOMAIN fut |->
        IF fut[i] \in {"created", "inflight"} THEN "dropped" ELSE fut[i]]

\* elems.iter_pin_mut().map(|e| e.take_output().unwrap()).collect()
RECURSIVE outputs(_)
outputs(out) ==
    IF out = << >> THEN << >>
    ELSE (IF Head(out).some THEN <<Head(out).val>> ELSE << >>)
         \o outputs(Tail(out))

\* variant: a failed element is skipped, the join yields the other outputs
join_output_skip_failed(p) ==
    IF \A i \in DOMAIN p.fut : p.fut[i] \in {"ok", "err"}
    THEN Some(Ok(outputs(p.out)))
    ELSE None

\* what the join yields after a pass: None while it is pending
join_output(p) ==
    IF p.error.some THEN Some(Err(p.error.val))
    ELSE IF \A i \in DOMAIN p.fut : p.fut[i] = "ok"
    THEN Some(Ok(outputs(p.out)))
    ELSE None

try_join_all_poll(ids, resp, st) ==
    LET p == poll_elems(1, ids, resp, st)
        r == join_output(p)
    IN IF r.some /\ ~r.val.ok
       THEN [p EXCEPT !.fut = drop_elems(p.fut),
                      !.out = [i \in DOMAIN p.out |-> None],
                      !.ready = r]
       ELSE [p EXCEPT !.ready = r]

\* --------------------------------------------------- get_contracts_ticker
\* contract_ids.iter().zip(res).map(..).collect(): the pairs are inserted
\* into the HashMap in order, a later pair replaces an earlier one
RECURSIVE collect_map(_, _, _)
collect_map(ids, res, acc) ==
    IF ids = << >> \/ res = << >> THEN acc
    ELSE collect_map(Tail(ids), Tail(res),
                     IF Head(ids) \in DOMAIN acc
                     THEN [acc EXCEPT ![Head(ids)] = Head(res)]
                     ELSE acc @@ (Head(ids) :> Head(res)))

\* variant: the first pair of a key is kept
RECURSIVE collect_map_first(_, _, _)
collect_map_first(ids, res, acc) ==
    IF ids = << >> \/ res = << >> THEN acc
    ELSE collect_map_first(Tail(ids), Tail(res),
                           IF Head(ids) \in DOMAIN acc
                           THEN acc
                           ELSE acc @@ (Head(ids) :> Head(res)))

\* variant: first insertion wins
zip_collect_first(ids, res) == collect_map_first(ids, res, << >>)

zip_collect(ids, res) == collect_map(ids, res, << >>)

\* ================================================================= state
VARIABLES call, arg, pc, ret, adds, fut, resp, out, sent
\* call : the entry point invoked        arg : its argument
\* pc   : "called", "joining" (get_contracts_ticker awaits its join) or
\*        "returned"                     ret : the value it returned
\* adds : the operands of the additions get_balances performed
\* fut  : per fetch of a batch, "created", "inflight", "ok", "err", "dropped"
\* resp : per fetch, what the server has answered (None: nothing yet)
\* out  : per fetch, the output the join holds for it
\* sent : the requests sent so far, in order

vars == <<call, arg, pc, ret, adds, fut, resp, out, sent>>
batch == <<fut, resp, out, sent>>

NoRet == [pending |-> TRUE]

\* ------------------------------------------------------------ input sets
Currencies == {"USD", "CBTC", "ETH", "ZZZ", "BTC"}
Mantissas == (0 - MaxMant)..MaxMant
RawDecimals == {Dec(m, s) : m \in Mantissas, s \in 0..MaxRawScale}
FewDecimals == {Dec(MaxMant, 0), Dec(0 - MaxMant, MaxRawScale)}
OptDecimals == {None} \cup {Some(d) : d \in FewDecimals}
OptCredits == {None, Some(Dec(MaxMant, MaxRawScale))}
ListDecimals == {Dec(m, s) : m \in Mantissas, s \in {0, MaxRawScale}}

Contracts ==
    {[variant |-> "DayAheadSwap", id |-> 1, min_increment |-> 100]}
    \cup {[variant |-> "Option", id |-> 2, min_increment |-> 100,
           strike_price |-> d] : d \in RawDecimals}

Tickers ==
    {[ask |-> a, bid |-> b, volume_24h |-> 7, last_trade |-> lt] :
        a \in RawDecimals, b \in RawDecimals,
        lt \in {None} \cup {Some([id |-> 3, price |-> d, size |-> 1]) :
                               d \in FewDecimals}}

Trades ==
    {[id |-> 4, filled_price |-> fp, filled_size |-> 1, fee |-> f,
      rebate |-> r, premium |-> p] :
        fp \in RawDecimals, f \in FewDecimals, r \in FewDecimals,
        p \in RawDecimals}

Transactions ==
    {[id |-> 5, asset |-> a, amount |-> am, debit_pre_balance |-> dpre,
      debit_post_balance |-> dpost, credit_pre_balance |-> cpre,
      credit_post_balance |-> cpost, net_change |-> n] :
        a \in Currencies, am \in RawDecimals, dpre \in OptDecimals,
        dpost \in OptDecimals, cpre \in OptCredits, cpost \in OptCredits,
        n \in RawDecimals}

\* the transactions of a page: only asset and net_change vary
PageTransactions ==
    {[id |-> 6, asset |-> a, amount |-> n, debit_pre_balance |-> None,
      debit_post_balance |-> None, credit_pre_balance |-> None,
      credit_post_balance |-> None, net_change |-> n] :
        a \in Currencies, n \in ListDecimals}

Keys == 1..MaxKey
ContractIds == UNION {[1..n -> Keys] : n \in 0..MaxIds}

\* the ticker the server gives for contract k when it quotes it at q
ServerTicker(k, q) ==
    [ask |-> Dec(10 * k + q, 0), bid |-> Dec(10 * k, 0), volume_24h |-> q,
     last_trade |-> None]

\* the outcomes of one fetch of contract k
ServerAnswers(k) ==
    {Ok(ServerTicker(k, q)) : q \in 1..MaxQuote}
    \cup {Err(ReqwestError(k))}

Pages == UNION {[1..n -> PageTransactions] : n \in 0..MaxTxns}

\* what get_list hands back: the page, or a transport / JSON error
Listings ==
    {Ok(p) : p \in Pages}
    \cup {Err(ReqwestError("funds/transactions")), Err(JSONError)}

ArgsOf(c) ==
    CASE c = "get_num_decimals" -> Currencies
      [] c = "rescale_number" ->
            {[amount |-> d, num_decimals |-> t] :
                d \in RawDecimals, t \in 0..MaxTarget}
      [] c = "convert_contract" -> Contracts
      [] c = "convert_contract_ticker" -> Tickers
      [] c = "convert_transaction" -> Transactions
      [] c = "convert_trade" -> Trades
      [] c = "get_transactions" -> Listings
      [] c = "get_balances" -> Listings
      [] c = "get_contracts_ticker" -> ContractIds

Calls == {"get_num_decimals", "rescale_number", "convert_contract",
          "convert_contract_ticker", "convert_transaction", "convert_trade",
          "get_transactions", "get_balances", "get_contracts_ticker"}

Init ==
    /\ pc = "called"
    /\ ret = NoRet
    /\ adds = << >>
    /\ fut = << >> /\ resp = << >> /\ out = << >> /\ sent = << >>
    /\ call \in Calls
    /\ arg \in ArgsOf(call)

Return(c, r) ==
    /\ pc = "called"
    /\ call = c
    /\ ret' = r
    /\ pc' = "returned"
    /\ UNCHANGED <<call, arg>>
    /\ UNCHANGED batch

GetNumDecimals ==
    Return("get_num_decimals", get_num_decimals(arg)) /\ UNCHANGED adds

RescaleNumber ==
    /\ call = "rescale_number"
    /\ Return("rescale_number", rescale_number(arg.amount, arg.num_decimals))
    /\ UNCHANGED adds

ConvertContract ==
    /\ call = "convert_contract"
    /\ Return("convert_contract", convert_contract(arg))
    /\ UNCHANGED adds

ConvertContractTicker ==
    /\ call = "convert_contract_ticker"
    /\ Return("convert_contract_ticker", convert_contract_ticker(arg))
    /\ UNCHANGED adds

ConvertTransaction ==
    /\ call = "convert_transaction"
    /\ Return("convert_transaction", convert_transaction(arg))
    /\ UNCHANGED adds

ConvertTrade ==
    /\ call = "convert_trade"
    /\ Return("convert_trade", convert_trade(arg))
    /\ UNCHANGED adds

GetTransactions ==
    /\ call = "get_transactions"
    /\ Return("get_transactions", get_transactions(arg))
    /\ UNCHANGED adds

GetBalances ==
    /\ call = "get_balances"
    /\ Return("get_balances", get_balances(arg).ret)
    /\ adds' = get_balances(arg).adds

\* get_contracts_ticker resumed by a poll of its join: pending, or the `?`
\* returns the error, or the map is collected and returned
Resume(st) ==
    /\ fut' = st.fut
    /\ out' = st.out
    /\ sent' = st.sent
    /\ IF st.ready.some
       THEN /\ pc' = "returned"
            /\ ret' = IF st.ready.val.ok
                      THEN Ok(zip_collect(arg, st.ready.val.val))
                      ELSE st.ready.val
       ELSE /\ pc' = "joining"
            /\ ret' = ret
    /\ UNCHANGED <<call, arg, adds>>

\* the futures are built, the join is built and polled for the first time
GetContractsTicker ==
    /\ pc = "called"
    /\ call = "get_contracts_ticker"
    /\ resp' = [i \in DOMAIN arg |-> None]
    /\ Resume(try_join_all_poll(arg, [i \in DOMAIN arg |-> None],
                                [fut |-> [i \in DOMAIN arg |-> "created"],
                                 out |-> [i \in DOMAIN arg |-> None],
                                 sent |-> << >>,
                                 error |-> None,
                                 ready |-> None]))

\* the server answers fetch i: a ticker of the contract asked for, or the
\* request fails
Respond(i) ==
    /\ pc = "joining"
    /\ fut[i] = "inflight"
    /\ ~resp[i].some
    /\ \E a \in ServerAnswers(arg[i]) : resp' = [resp EXCEPT ![i] = Some(a)]
    /\ UNCHANGED <<call, arg, pc, ret, adds, fut, out, sent>>

\* the task is woken and polls the join again
JoinPoll ==
    /\ pc = "joining"
    /\ \E i \in DOMAIN fut : fut[i] = "inflight" /\ resp[i].some
    /\ Resume(try_join_all_poll(arg, resp,
                                [fut |-> fut, out |-> out, sent |-> sent,
                                 error |-> None, ready |-> None]))
    /\ UNCHANGED resp

Next ==
    \/ GetNumDecimals
    \/ RescaleNumber
    \/ ConvertContract
    \/ ConvertContractTicker
    \/ ConvertTransaction
    \/ ConvertTrade
    \/ GetTransactions
    \/ GetBalances
    \/ GetContractsTicker
    \/ \E i \in DOMAIN fut : Respond(i)
    \/ JoinPoll

Spec == Init /\ [][Next]_vars

\* ================================================= claims, sequential calls
KnownCurrencies == {"USD", "CBTC", "ETH"}

TablePrecision(c) ==
    CASE c = "USD" -> 2
      [] c = "CBTC" -> 8
      [] c = "ETH" -> 9

Returned(c) == pc = "returned" /\ call = c

C2_NarrowingFails ==
    (Returned("rescale_number") /\ HasDigitBeyond(arg.amount, arg.num_decimals))
        => ~ret.ok

\* C3: converting a transaction of a listed currency whose raw amount (or
\* net change) is an integer m yields the mantissa m at exactly the scale the
\* table gives for the currency.
C3_IntegerKeepsMantissa ==
    (Returned("convert_transaction") /\ arg.asset \in KnownCurrencies)
        => /\ ret.ok
           /\ arg.amount.s = 0
                => ret.val.amount = Dec(arg.amount.m, TablePrecision(arg.asset))
           /\ arg.net_change.s = 0
                => ret.val.net_change
                     = Dec(arg.net_change.m, TablePrecision(arg.asset))

\* an integer amount of an ETH transaction came back at nine digits
C3_Witness ==
    /\ Returned("convert_transaction")
    /\ arg.asset = "ETH"
    /\ arg.amount = Dec(1, 0)
    /\ ret.ok
    /\ ret.val.amount = Dec(1, 9)

\* C4: for a currency outside the table get_num_decimals returns
\* UnknownCurrency carrying that very code, and convert_transaction of a
\* transaction in such an asset returns the same error, not a transaction.
C4_UnknownCurrencyPropagates ==
    /\ (Returned("get_num_decimals") /\ arg \notin KnownCurrencies)
          => ret = Err(UnknownCurrency(arg))
    /\ (Returned("convert_transaction") /\ arg.asset \notin KnownCurrencies)
          => ret = Err(UnknownCurrency(arg.asset))

C4_Witness ==
    /\ Returned("convert_transaction")
    /\ arg.asset = "ZZZ"
    /\ ~ret.ok
    /\ ret.err = UnknownCurrency("ZZZ")

\* ---------------------------------------------------------- reference sums
RECURSIVE SumMantissas(_, _)
SumMantissas(txn, I) ==
    IF I = {} THEN 0
    ELSE LET i == CHOOSE j \in I : TRUE
         IN txn[i].net_change.m + SumMantissas(txn, I \ {i})

IndicesOf(txn, a) == {i \in DOMAIN txn : txn[i].asset = a}
AssetsOf(txn) == {txn[i].asset : i \in DOMAIN txn}
Reverse(q) == [i \in 1..Len(q) |-> q[Len(q) + 1 - i]]

\* C8: when the transaction list converts, get_balances returns a map whose
\* keys are exactly the assets occurring in the list, each entry the exact
\* sum of the (converted) net changes of that asset, the same for the list
\* taken in the opposite order, and the empty map for the empty list.
C8_BalancesAreExactSums ==
    (Returned("get_balances") /\ get_transactions(arg).ok)
        => LET txn == get_transactions(arg).val
           IN /\ ret.ok
              /\ DOMAIN ret.val = AssetsOf(txn)
              /\ \A a \in AssetsOf(txn) :
                    /\ ret.val[a].m = SumMantissas(txn, IndicesOf(txn, a))
                    /\ \A i \in IndicesOf(txn, a) :
                          ret.val[a].s = txn[i].net_change.s
              /\ get_balances(Ok(Reverse(arg.val))).ret = ret
              /\ arg.val = << >> => ret.val = << >>

\* two transactions of one asset with opposite signs, summed into one entry
C8_Witness ==
    /\ Returned("get_balances")
    /\ ret.ok
    /\ Len(arg.val) = 2
    /\ arg.val[1].asset = "USD" /\ arg.val[2].asset = "USD"
    /\ arg.val[1].net_change.m = 1 /\ arg.val[2].net_change.m = -1
    /\ ret.val = ("USD" :> Dec(0, 2))

\* a transaction the claims call impossible to normalize: an asset outside
\* the table, or a monetary field with a nonzero digit beyond the asset's
\* precision
OptBeyond(o, t) == o.some /\ HasDigitBeyond(o.val, t)

Normalizable(t) ==
    /\ t.asset \in KnownCurrencies
    /\ LET nd == TablePrecision(t.asset)
       IN /\ ~HasDigitBeyond(t.amount, nd)
          /\ ~HasDigitBeyond(t.net_change, nd)
          /\ ~OptBeyond(t.debit_pre_balance, nd)
          /\ ~OptBeyond(t.debit_post_balance, nd)
          /\ ~OptBeyond(t.credit_pre_balance, nd)
          /\ ~OptBeyond(t.credit_post_balance, nd)

FirstBad(page) ==
    CHOOSE i \in DOMAIN page :
        ~Normalizable(page[i]) /\ \A j \in 1..(i - 1) : Normalizable(page[j])

\* C9: when some transaction of the fetched list cannot be normalized,
\* get_transactions and get_balances return an error and no list or map: the
\* error of the first such transaction in input order.
C9_AllOrNothing ==
    ((Returned("get_transactions") \/ Returned("get_balances"))
       /\ arg.ok
       /\ \E i \in DOMAIN arg.val : ~Normalizable(arg.val[i]))
        => /\ ~ret.ok
           /\ LET t == arg.val[FirstBad(arg.val)]
              IN IF t.asset \notin KnownCurrencies
                 THEN ret.err = UnknownCurrency(t.asset)
                 ELSE ret.err.kind = "DecimalError"

\* the part of C9 the code does keep: an asset outside the table anywhere in
\* the list makes both calls return the UnknownCurrency error of the first
\* such transaction, and get_balances performs no addition it reports
C9_UnknownAssetAborts ==
    ((Returned("get_transactions") \/ Returned("get_balances"))
       /\ arg.ok
       /\ \E i \in DOMAIN arg.val : arg.val[i].asset \notin KnownCurrencies)
        => LET i == CHOOSE k \in DOMAIN arg.val :
                       /\ arg.val[k].asset \notin KnownCurrencies
                       /\ \A j \in 1..(k - 1) : arg.val[j].asset \in KnownCurrencies
           IN ret = Err(UnknownCurrency(arg.val[i].asset))

\* the monetary fields of a converted transaction all have scale nd
TransactionScaled(t, nd) ==
    /\ t.amount.s = nd
    /\ t.net_change.s = nd
    /\ t.debit_pre_balance.some => t.debit_pre_balance.val.s = nd
    /\ t.debit_post_balance.some => t.debit_post_balance.val.s = nd
    /\ t.credit_pre_balance.some => t.credit_pre_balance.val.s = nd
    /\ t.credit_post_balance.some => t.credit_post_balance.val.s = nd

\* C10: every record a conversion returns has each monetary field at exactly
\* its target scale (the table's precision of the asset for a transaction,
\* 2 for ticker, trade and strike prices), optional fields stay present or
\* absent, and every addition of get_balances has operands of equal scale.
C10_ExactScales ==
    (pc = "returned" /\ ret.ok)
        => /\ call = "convert_transaction"
                => /\ TransactionScaled(ret.val, TablePrecision(arg.asset))
                   /\ ret.val.debit_pre_balance.some = arg.debit_pre_balance.some
                   /\ ret.val.credit_post_balance.some = arg.credit_post_balance.some
           /\ call = "get_transactions"
                => \A i \in DOMAIN ret.val :
                      TransactionScaled(ret.val[i], TablePrecision(ret.val[i].asset))
           /\ call = "convert_contract_ticker"
                => /\ ret.val.ask.s = 2
                   /\ ret.val.bid.s = 2
                   /\ ret.val.last_trade.some = arg.last_trade.some
                   /\ ret.val.last_trade.some => ret.val.last_trade.val.price.s = 2
           /\ call = "convert_trade"
                => /\ ret.val.filled_price.s = 2
                   /\ ret.val.fee.s = 2
                   /\ ret.val.rebate.s = 2
                   /\ ret.val.premium.s = 2
           /\ (call = "convert_contract" /\ arg.variant = "Option")
                => ret.val.strike_price.s = 2
           /\ call = "get_balances"
                => \A k \in DOMAIN adds : adds[k][1].s = adds[k][2].s

\* get_balances added two net changes whose raw scales differed
C10_Witness ==
    /\ Returned("get_balances")
    /\ ret.ok
    /\ Len(adds) = 1
    /\ arg.val[1].net_change.s # arg.val[2].net_change.s
    /\ adds[1][1].s = 2 /\ adds[1][2].s = 2

\* ======================================================= claims, the batch
Failed(i) == resp[i].some /\ ~resp[i].val.ok
LastIndexOf(ids, k) ==
    CHOOSE i \in DOMAIN ids :
        ids[i] = k /\ \A j \in DOMAIN ids : ids[j] = k => j <= i

\* C5: in whatever order the fetches are answered, once the fetch of some
\* key has failed get_contracts_ticker returns an error, the error of one of
\* the failed fetches, and never a map; a map is returned only when no fetch
\* failed.
C5_BatchAllOrNothing ==
    Returned("get_contracts_ticker")
        => /\ (\E i \in DOMAIN arg : Failed(i))
                => /\ ~ret.ok
                   /\ \E i \in DOMAIN arg :
                         Failed(i) /\ fut[i] = "err" /\ ret = resp[i].val
           /\ ret.ok => \A i \in DOMAIN arg : fut[i] = "ok"

\* the batch [1, 2]: the fetch of key 1 succeeded, the fetch of key 2 failed,
\* and the call returned the error
C5_Witness ==
    /\ Returned("get_contracts_ticker")
    /\ arg = <<1, 2>>
    /\ fut[1] = "ok"
    /\ Failed(2)
    /\ ret = Err(ReqwestError(2))

\* C6: when every fetch succeeds the map returned has exactly the distinct
\* input keys, one request was sent per occurrence of a key (for that key),
\* and the entry of a key is the converted ticker answered to the fetch of
\* its last occurrence, a ticker of that very contract.
C6_MapOfLastOccurrences ==
    (Returned("get_contracts_ticker") /\ ret.ok)
        => /\ DOMAIN ret.val = {arg[i] : i \in DOMAIN arg}
           /\ Len(sent) = Len(arg)
           /\ \A i \in DOMAIN arg :
                 \E j \in DOMAIN sent :
                    sent[j] = [fetch |-> i, contract_id |-> arg[i]]
           /\ \A k \in DOMAIN ret.val :
                 LET i == LastIndexOf(arg, k)
                 IN /\ resp[i].some /\ resp[i].val.ok
                    /\ Ok(ret.val[k]) = convert_contract_ticker(resp[i].val.val)
                    /\ ret.val[k].bid = Dec(10 * k, 2)

\* key 1 occurs twice with different quotes, answered last-first; the map
\* holds the quote of the last occurrence
C6_Witness ==
    /\ Returned("get_contracts_ticker")
    /\ ret.ok
    /\ arg = <<1, 2, 1>>
    /\ resp[1].val.val.volume_24h = 1
    /\ resp[3].val.val.volume_24h = 2
    /\ ret.val[1].volume_24h = 2
    /\ ret.val[1].ask = Dec(12, 2)
    /\ DOMAIN ret.val = {1, 2}

\* C7 (as stated): after a fetch of the batch has failed, no sibling fetch is
\* cancelled: each is still running or has run to completion.
C7_SiblingsRunToCompletion ==
    (Returned("get_contracts_ticker") /\ ~ret.ok)
        => \A i \in DOMAIN arg : fut[i] \in {"inflight", "ok", "err"}

\* C7 (amended): when a fetch of the batch fails, the call returns with the
\* join dropped: every sibling fetch that was still in flight is cancelled
\* (dropped) and never completes, even when its response had arrived; only
\* the fetches that had completed before ran to completion, and their outputs
\* are discarded.
C7_SiblingsDropped ==
    (Returned("get_contracts_ticker") /\ ~ret.ok)
        => /\ \A i \in DOMAIN arg : fut[i] \in {"ok", "err", "dropped"}
           /\ \A i \in DOMAIN arg : out[i] = None
           /\ ~ENABLED Next

\* key 2 failed while the fetch of key 1 was in flight with its response
\* already there: the fetch of key 1 was dropped
C7_Witness ==
    /\ Returned("get_contracts_ticker")
    /\ ~ret.ok
    /\ arg = <<1, 2, 1>>
    /\ fut = <<"ok", "err", "dropped">>
    /\ resp[3].some

====
